---- MODULE Spec2Model ----
(***************************************************************************)
(* A state-machine model of src/app.py (class PlannifyProAI): the plot     *)
(* polygon and its area, the room selection and its layout, and the beam   *)
(* calculator.  Widgets are modelled by the value they display.            *)
(***************************************************************************)
EXTENDS Integers, Sequences, FiniteSets, TLC

(***************************************************************************)
(* Bounds of the model and the inputs the handlers are driven with.        *)
(***************************************************************************)
MaxPts == 4
\* how many catalog rooms the room-selection handlers are driven with
MaxRooms == 3
\* how many catalog rooms the floor-plan generation is driven with
MaxLayoutRooms == 3
\* beam lengths and loads typed into the entries: -1 .. MaxLen and 12,
\* -1 .. MaxLoad and 10
MaxLen == 2
MaxLoad == 1
\* the plot areas the built-up area is tabulated for: 0 .. MaxArea
MaxArea == 100
\* canvas click coordinates (event.x, event.y)
ClickXs == {0, 15, 30}
ClickYs == {0, 20}
\* slider values handed to on_scale_change, in halves (10 is "5.0", 11 is "5.5")
ScaleValues2 == {10, 11, 20}

(***************************************************************************)
(* Arithmetic helpers                                                      *)
(***************************************************************************)
Abs(n) == IF n < 0 THEN -n ELSE n

\* Python's round() of the non-negative quotient n/d: nearest integer, a tie
\* goes to the even neighbour
RoundHalfEven(n, d) ==
    LET q == n \div d
        r == n % d
    IN  IF 2 * r < d THEN q
        ELSE IF 2 * r > d THEN q + 1
        ELSE IF q % 2 = 0 THEN q ELSE q + 1

\* int(float(value)) of a value given in halves: truncation toward zero
IntOfFloat2(v2) == IF v2 >= 0 THEN v2 \div 2 ELSE -((-v2) \div 2)

(***************************************************************************)
(* Exact fractions [n, d] (d > 0, lowest terms) for the beam calculator's  *)
(* floating-point values                                                   *)
(***************************************************************************)
RECURSIVE Gcd(_, _)
Gcd(a, b) == IF b = 0 THEN a ELSE Gcd(b, a % b)

SignedDiv(n, g) == IF n >= 0 THEN n \div g ELSE -((-n) \div g)

Rat(n, d) ==
    LET sn == IF d < 0 THEN -n ELSE n
        sd == Abs(d)
        g  == Gcd(Abs(sn), sd)
    IN  [n |-> SignedDiv(sn, g), d |-> sd \div g]

RInt(k) == [n |-> k, d |-> 1]

RNeg(a) == [n |-> -a.n, d |-> a.d]

RMul(a, b) ==
    LET g1 == Gcd(Abs(a.n), b.d)
        g2 == Gcd(Abs(b.n), a.d)
    IN  IF a.n = 0 \/ b.n = 0 THEN RInt(0)
        ELSE [n |-> SignedDiv(a.n, g1) * SignedDiv(b.n, g2),
              d |-> (a.d \div g2) * (b.d \div g1)]

RAdd(a, b) ==
    LET g == Gcd(a.d, b.d) IN
    Rat(a.n * (b.d \div g) + b.n * (a.d \div g), a.d * (b.d \div g))

RSub(a, b) == RAdd(a, RNeg(b))

\* a / k for an integer k > 0
RDivInt(a, k) == RMul(a, [n |-> 1, d |-> k])

RLe(a, b) == a.n * b.d <= b.n * a.d

\* f"{v:.2f}" of a non-negative value, as a number of hundredths
Fmt2(a) == RoundHalfEven(100 * a.n, a.d)

(***************************************************************************)
(* The room catalog of __init__ (Python dicts keep insertion order)        *)
(***************************************************************************)
CatalogOrder ==
    <<"master_bedroom", "bedroom", "living_room", "kitchen", "dining_room",
      "toilet_bath", "study_room", "balcony", "pooja_room", "store_room">>

RoomDef(nm, lo, hi, dflt, col) ==
    [name |-> nm, min_size |-> lo, max_size |-> hi, default_size |-> dflt,
     color |-> col]

RoomCatalog ==
    ("master_bedroom" :> RoomDef("Master Bedroom", 200, 400, 250, "#8b5cf6")) @@
    ("bedroom"        :> RoomDef("Bedroom", 150, 300, 180, "#3b82f6")) @@
    ("living_room"    :> RoomDef("Living Room", 250, 500, 300, "#f97316")) @@
    ("kitchen"        :> RoomDef("Kitchen", 120, 250, 150, "#ef4444")) @@
    ("dining_room"    :> RoomDef("Dining Room", 120, 280, 150, "#ec4899")) @@
    ("toilet_bath"    :> RoomDef("Toilet & Bath", 60, 150, 80, "#10b981")) @@
    ("study_room"     :> RoomDef("Study Room", 100, 220, 120, "#6366f1")) @@
    ("balcony"        :> RoomDef("Balcony", 60, 180, 80, "#14b8a6")) @@
    ("pooja_room"     :> RoomDef("Pooja Room", 40, 100, 60, "#f97316")) @@
    ("store_room"     :> RoomDef("Store Room", 40, 100, 50, "#6b7280"))

\* the first n keys of the catalog
FirstKeys(n) == {CatalogOrder[i] : i \in 1 .. (IF n < Len(CatalogOrder) THEN n ELSE Len(CatalogOrder))}

\* room keys that are in no catalog entry
UnknownKeys == {"garage"}

\* the rooms whose checkbox is clicked and whose size is set
RoomInputs == FirstKeys(MaxRooms)

\* areas handed to update_room_size for room k, in halves: just below and at
\* min_size, inside the range, at and just above max_size (update_room_size
\* takes whatever number it is given; only the slider's from_/to limit it)
SizeValues2(k) ==
    LET d == RoomCatalog[k] IN
    {2 * d.min_size - 2, 2 * d.min_size, 2 * d.default_size + 1,
     2 * d.max_size, 2 * d.max_size + 1, 2 * d.max_size + 2}

(***************************************************************************)
(* Inputs of the beam calculator                                           *)
(***************************************************************************)
BeamTypes == {"simply_supported", "cantilever", "fixed_both"}
\* a beam_type_var value that is none of the combobox values
OtherBeamTypes == {"propped"}
BeamLengths == (-1 .. MaxLen) \cup {12}
BeamLoads == (-1 .. MaxLoad) \cup {10}
\* np.linspace(0, length, 100)
NumSamples == 100

VARIABLES
    plot_points,         \* list of {'x','y'} dicts, as a sequence of records
    is_drawing,
    scale,
    vertex_count_label,  \* the number shown by vertex_count_label
    total_area_label,    \* the number shown by total_area_label ("<n> sq ft")
    builtup_area_label,  \* the number shown by builtup_area_label
    room_definitions,    \* the catalog: room key -> definition
    selected_rooms,      \* set of room keys
    room_sizes,          \* dict room key -> area
    room_vars,           \* the checkbox BooleanVar of every catalog room
    room_sliders,        \* dict room key -> the size slider's range
    floor_plan_canvas,   \* what draw_floor_plan drew last
    room_schedule_tree,  \* the rows of the room schedule
    beam_type_var,
    beam_length_var,     \* the entry's content: [ok, v], ok = it reads as a number
    beam_load_var,
    beam_result,         \* max_moment and max_shear as calculate_beam computed them last
    max_moment_label,
    max_shear_label,
    sfd_ax,              \* the curve plotted on the shear force axes: [x, y]
    bmd_ax,              \* the curve plotted on the bending moment axes: [x, y]
    status_var,          \* the status bar: [text, n]
    messagebox,          \* the dialog shown by the last handler, or "none"
    raised,              \* the exception that escaped the last handler, or "none"
    lastCall             \* the handler that ran last (history)

plotVars == <<plot_points, is_drawing, scale, vertex_count_label,
              total_area_label, builtup_area_label>>

roomVars == <<room_definitions, selected_rooms, room_sizes, room_vars, room_sliders>>

planVars == <<floor_plan_canvas, room_schedule_tree>>

beamVars == <<beam_type_var, beam_length_var, beam_load_var, beam_result,
              max_moment_label, max_shear_label, sfd_ax, bmd_ax>>

vars == <<plotVars, roomVars, planVars, beamVars, status_var, messagebox, raised,
          lastCall>>

Status(t, n) == [text |-> t, n |-> n]

(***************************************************************************)
(* Geometry: calculate_area and update_plot_info                           *)
(***************************************************************************)
\* (mutation of ShoelaceLoop: the closing edge from the last point back to the
\* first is left out, j = i + 1 without the "% n")
RECURSIVE ShoelaceLoopOpen(_, _, _)
ShoelaceLoopOpen(pts, i, acc) ==
    LET n == Len(pts) IN
    IF i >= n - 1 THEN acc
    ELSE LET j  == i + 1
             a1 == acc + pts[i + 1].x * pts[j + 1].y
             a2 == a1 - pts[j + 1].x * pts[i + 1].y
         IN  ShoelaceLoopOpen(pts, i + 1, a2)

\* the loop of calculate_area from index i (0-based) on, with accumulator acc
RECURSIVE ShoelaceLoop(_, _, _)
ShoelaceLoop(pts, i, acc) ==
    LET n == Len(pts) IN
    IF i >= n THEN acc
    ELSE LET j  == (i + 1) % n
             a1 == acc + pts[i + 1].x * pts[j + 1].y
             a2 == a1 - pts[j + 1].x * pts[i + 1].y
         IN  ShoelaceLoop(pts, i + 1, a2)

\* (mutation of calculate_area: the abs() is left out, the signed area is rounded)
calculate_area_signed(pts, sc) ==
    IF Len(pts) < 3 THEN 0
    ELSE LET s == ShoelaceLoop(pts, 0, 0) IN
         IF s >= 0 THEN RoundHalfEven(s, 2 * (sc * sc))
                   ELSE -RoundHalfEven(-s, 2 * (sc * sc))

calculate_area(pts, sc) ==
    IF Len(pts) < 3 THEN 0
    ELSE RoundHalfEven(Abs(ShoelaceLoop(pts, 0, 0)), 2 * (sc * sc))

\* (mutation of builtup_area: int() in place of round(), the product is cut off)
builtup_area_truncated(area) == (3 * area) \div 4

\* round(area * 0.75)
builtup_area(area) == RoundHalfEven(3 * area, 4)

\* update_plot_info: the three labels for the given points and scale
update_plot_info(pts, sc) ==
    LET area == calculate_area(pts, sc) IN
    /\ vertex_count_label' = Len(pts)
    /\ total_area_label' = area
    /\ builtup_area_label' = builtup_area(area)

(***************************************************************************)
(* Initial state: __init__ followed by init_app                            *)
(***************************************************************************)
InitPlot ==
    /\ plot_points = << >>
    /\ is_drawing = FALSE
    /\ scale = 10
    /\ vertex_count_label = 0
    /\ total_area_label = calculate_area(<< >>, 10)
    /\ builtup_area_label = builtup_area(calculate_area(<< >>, 10))

InitCommon ==
    /\ status_var = Status("Ready", 0)
    /\ messagebox = "none"
    /\ raised = "none"
    /\ lastCall = "__init__"

\* Python dict operations
EmptyDict == [j \in {} |-> 0]

DictSet(d, k, v) == [j \in (DOMAIN d) \cup {k} |-> IF j = k THEN v ELSE d[j]]

DictPop(d, k) == [j \in (DOMAIN d) \ {k} |-> d[j]]

InitRooms ==
    /\ room_definitions = RoomCatalog
    /\ selected_rooms = {}
    /\ room_sizes = EmptyDict
    /\ room_vars = [k \in DOMAIN RoomCatalog |-> FALSE]
    /\ room_sliders = EmptyDict

EmptyCanvas == [boundary |-> << >>, rooms |-> << >>, compass |-> FALSE]

InitPlan ==
    /\ floor_plan_canvas = EmptyCanvas
    /\ room_schedule_tree = << >>

\* a Tk DoubleVar holding the number v, and one whose entry text is no number
Num(v) == [ok |-> TRUE, v |-> v]
NotANumber == [ok |-> FALSE, v |-> 0]

\* a result label: the text it was created with, or a value printed with :.2f
InitialLabel == [fmt |-> "initial", hundredths |-> 0]
Label2f(h) == [fmt |-> ".2f", hundredths |-> h]

EmptyAxes == [x |-> << >>, y |-> << >>]

InitBeam ==
    /\ beam_type_var = "simply_supported"
    /\ beam_length_var = Num(12)
    /\ beam_load_var = Num(10)
    /\ beam_result = [computed |-> FALSE, max_moment |-> [n |-> 0, d |-> 1],
                      max_shear |-> [n |-> 0, d |-> 1]]
    /\ max_moment_label = InitialLabel
    /\ max_shear_label = InitialLabel
    /\ sfd_ax = EmptyAxes
    /\ bmd_ax = EmptyAxes

Init == InitPlot /\ InitRooms /\ InitPlan /\ InitBeam /\ InitCommon

\* what every handler that ends normally without a dialog leaves behind
Quiet(name) ==
    /\ messagebox' = "none"
    /\ raised' = "none"
    /\ lastCall' = name

(***************************************************************************)
(* Plot drawing handlers                                                   *)
(***************************************************************************)
toggle_drawing ==
    /\ is_drawing' = ~is_drawing
    /\ status_var' = IF is_drawing' THEN Status("Drawing mode active - Click to add points", 0)
                                    ELSE Status("Drawing mode stopped", 0)
    /\ Quiet("toggle_drawing")
    /\ UNCHANGED <<roomVars, planVars, beamVars>>
    /\ UNCHANGED <<plot_points, scale, vertex_count_label, total_area_label,
                   builtup_area_label>>

add_plot_point(x, y) ==
    /\ plot_points' = Append(plot_points, [x |-> x, y |-> y])
    /\ update_plot_info(plot_points', scale)
    /\ status_var' = Status("Added point", Len(plot_points'))
    /\ UNCHANGED <<is_drawing, scale>>

clear_plot ==
    /\ plot_points' = << >>
    /\ update_plot_info(plot_points', scale)
    /\ status_var' = Status("Plot cleared", 0)
    /\ Quiet("clear_plot")
    /\ UNCHANGED <<roomVars, planVars, beamVars>>
    /\ UNCHANGED <<is_drawing, scale>>

\* (mutation of undo_body: the point is removed but update_plot_info is not
\* called, the labels keep the old polygon's figures)
undo_body_stale ==
    IF plot_points # << >>
    THEN /\ plot_points' = SubSeq(plot_points, 1, Len(plot_points) - 1)
         /\ status_var' = Status("Last point removed", 0)
         /\ UNCHANGED <<is_drawing, scale, vertex_count_label, total_area_label,
                        builtup_area_label>>
    ELSE UNCHANGED <<plotVars, status_var>>

\* the body of undo_last_point
undo_body ==
    IF plot_points # << >>
    THEN /\ plot_points' = SubSeq(plot_points, 1, Len(plot_points) - 1)
         /\ update_plot_info(plot_points', scale)
         /\ status_var' = Status("Last point removed", 0)
         /\ UNCHANGED <<is_drawing, scale>>
    ELSE UNCHANGED <<plotVars, status_var>>

undo_last_point ==
    /\ undo_body
    /\ Quiet("undo_last_point")
    /\ UNCHANGED <<roomVars, planVars, beamVars>>

\* (mutation of on_canvas_click: the point is added without the test of
\* is_drawing)
on_canvas_click_always_adds(x, y) ==
    /\ Len(plot_points) < MaxPts
    /\ add_plot_point(x, y)
    /\ Quiet("on_canvas_click")
    /\ UNCHANGED <<roomVars, planVars, beamVars>>

on_canvas_click(x, y) ==
    /\ Len(plot_points) < MaxPts
    /\ IF is_drawing THEN add_plot_point(x, y)
                     ELSE UNCHANGED <<plotVars, status_var>>
    /\ Quiet("on_canvas_click")
    /\ UNCHANGED <<roomVars, planVars, beamVars>>

on_canvas_right_click ==
    /\ IF is_drawing THEN undo_body
                     ELSE UNCHANGED <<plotVars, status_var>>
    /\ Quiet("on_canvas_right_click")
    /\ UNCHANGED <<roomVars, planVars, beamVars>>

\* (mutation of on_scale_change: the points are moved along with the scale, each
\* coordinate multiplied by new scale / old scale)
on_scale_change_moves_points(value2) ==
    /\ scale' = IntOfFloat2(value2)
    /\ plot_points' = [i \in 1 .. Len(plot_points) |->
                          [x |-> (plot_points[i].x * scale') \div scale,
                           y |-> (plot_points[i].y * scale') \div scale]]
    /\ update_plot_info(plot_points', scale')
    /\ Quiet("on_scale_change")
    /\ UNCHANGED <<roomVars, planVars, beamVars>>
    /\ UNCHANGED <<is_drawing, status_var>>

on_scale_change(value2) ==
    /\ scale' = IntOfFloat2(value2)
    /\ update_plot_info(plot_points, scale')
    /\ Quiet("on_scale_change")
    /\ UNCHANGED <<roomVars, planVars, beamVars>>
    /\ UNCHANGED <<plot_points, is_drawing, status_var>>

(***************************************************************************)
(* Room selection handlers                                                 *)
(***************************************************************************)
\* create_room_slider: the slider of a room, with its range and its size label
NewSlider(room_key) ==
    LET d == room_definitions[room_key] IN
    [from_ |-> d.min_size, to |-> d.max_size, label |-> d.default_size]

\* (mutation of toggle_room_selection: the key is added to selected_rooms
\* before its checkbox variable is looked up)
toggle_room_selection_add_first(room_key, rv) ==
    IF room_key \notin DOMAIN rv
    THEN /\ raised' = "KeyError"
         /\ selected_rooms' = selected_rooms \cup {room_key}
         /\ UNCHANGED <<room_sizes, room_sliders>>
    ELSE IF rv[room_key]
    THEN /\ selected_rooms' = selected_rooms \cup {room_key}
         /\ room_sizes' = DictSet(room_sizes, room_key,
                                   room_definitions[room_key].default_size)
         /\ room_sliders' = DictSet(room_sliders, room_key, NewSlider(room_key))
         /\ raised' = "none"
    ELSE /\ selected_rooms' = selected_rooms \ {room_key}
         /\ room_sizes' = DictPop(room_sizes, room_key)
         /\ room_sliders' = DictPop(room_sliders, room_key)
         /\ raised' = "none"

\* (mutation of toggle_room_selection: a room that is unticked keeps its entry
\* in room_sizes)
toggle_room_selection_keeps_size(room_key, rv) ==
    IF room_key \notin DOMAIN rv
    THEN /\ raised' = "KeyError"
         /\ UNCHANGED <<selected_rooms, room_sizes, room_sliders>>
    ELSE IF rv[room_key]
    THEN /\ selected_rooms' = selected_rooms \cup {room_key}
         /\ room_sizes' = DictSet(room_sizes, room_key,
                                   room_definitions[room_key].default_size)
         /\ room_sliders' = DictSet(room_sliders, room_key, NewSlider(room_key))
         /\ raised' = "none"
    ELSE /\ selected_rooms' = selected_rooms \ {room_key}
         /\ room_sizes' = room_sizes
         /\ room_sliders' = DictPop(room_sliders, room_key)
         /\ raised' = "none"

\* toggle_room_selection(room_key), rv being room_vars as the call finds it
toggle_room_selection(room_key, rv) ==
    IF room_key \notin DOMAIN rv
    THEN \* self.room_vars[room_key] raises KeyError before anything is changed
         /\ raised' = "KeyError"
         /\ UNCHANGED <<selected_rooms, room_sizes, room_sliders>>
    ELSE IF rv[room_key]
    THEN /\ selected_rooms' = selected_rooms \cup {room_key}
         /\ room_sizes' = DictSet(room_sizes, room_key,
                                   room_definitions[room_key].default_size)
         /\ room_sliders' = DictSet(room_sliders, room_key, NewSlider(room_key))
         /\ raised' = "none"
    ELSE /\ selected_rooms' = selected_rooms \ {room_key}
         /\ room_sizes' = DictPop(room_sizes, room_key)
         /\ room_sliders' = DictPop(room_sliders, room_key)
         /\ raised' = "none"

\* (mutation of on_room_checkbox: when a room is unticked, the area it had is
\* written back into the catalog as the room's default_size)
on_room_checkbox_keeps_default(room_key) ==
    /\ room_vars' = IF room_key \in DOMAIN room_vars
                     THEN [room_vars EXCEPT ![room_key] = ~@]
                     ELSE room_vars
    /\ toggle_room_selection(room_key, room_vars')
    /\ room_definitions' =
           IF room_key \in DOMAIN room_sizes /\ room_key \in DOMAIN room_definitions
           THEN [room_definitions EXCEPT ![room_key].default_size = room_sizes[room_key]]
           ELSE room_definitions
    /\ messagebox' = "none"
    /\ lastCall' = "toggle_room_selection"
    /\ UNCHANGED <<plotVars, planVars, beamVars, status_var>>

\* a click on the checkbox of room_key: Tk flips the BooleanVar, then runs the
\* command toggle_room_selection(room_key); for a key without a checkbox the
\* handler is called as it stands
on_room_checkbox(room_key) ==
    /\ room_vars' = IF room_key \in DOMAIN room_vars
                     THEN [room_vars EXCEPT ![room_key] = ~@]
                     ELSE room_vars
    /\ toggle_room_selection(room_key, room_vars')
    /\ messagebox' = "none"
    /\ lastCall' = "toggle_room_selection"
    /\ UNCHANGED <<room_definitions, plotVars, planVars, beamVars, status_var>>

\* (mutation of update_room_size: the dict is replaced by one holding only the
\* new entry)
update_room_size_replace(room_key, value2) ==
    LET size == IntOfFloat2(value2) IN
    /\ room_key \in DOMAIN room_sliders
    /\ room_sizes' = DictSet(EmptyDict, room_key, size)
    /\ room_sliders' = [room_sliders EXCEPT ![room_key].label = size]
    /\ Quiet("update_room_size")
    /\ UNCHANGED <<room_definitions, selected_rooms, room_vars, plotVars, planVars,
                   beamVars, status_var>>

\* update_room_size(room_key, value, label), value2 being value in halves.  Its
\* one caller is the command of the slider that create_room_slider made for
\* room_key, with that slider's label; remove_room_slider destroys the slider.
update_room_size(room_key, value2) ==
    LET size == IntOfFloat2(value2) IN
    /\ room_key \in DOMAIN room_sliders
    /\ room_sizes' = DictSet(room_sizes, room_key, size)
    /\ room_sliders' = [room_sliders EXCEPT ![room_key].label = size]
    /\ Quiet("update_room_size")
    /\ UNCHANGED <<room_definitions, selected_rooms, room_vars, plotVars, planVars,
                   beamVars, status_var>>

NextRooms ==
    \/ \E k \in RoomInputs \cup UnknownKeys : on_room_checkbox(k)
    \/ \E k \in RoomInputs : \E v \in SizeValues2(k) : update_room_size(k, v)

SpecRooms == Init /\ [][NextRooms]_vars

(***************************************************************************)
(* Floor plan generation                                                   *)
(***************************************************************************)
\* the orders in which iterating over the set S can yield its elements
RECURSIVE Orders(_)
Orders(S) ==
    IF S = {} THEN {<< >>}
    ELSE UNION {{<<e>> \o rest : rest \in Orders(S \ {e})} : e \in S}

\* math.ceil(math.sqrt(n)) for n >= 1
RECURSIVE CeilSqrtFrom(_, _)
CeilSqrtFrom(n, c) == IF c * c >= n THEN c ELSE CeilSqrtFrom(n, c + 1)

CeilSqrt(n) == CeilSqrtFrom(n, 0)

\* round(math.sqrt(n / d)): the least k with n/d < (k + 1/2)^2
RECURSIVE RoundSqrtFrom(_, _, _)
RoundSqrtFrom(n, d, k) ==
    IF 4 * n < (2 * k + 1) * (2 * k + 1) * d THEN k ELSE RoundSqrtFrom(n, d, k + 1)

\* calculate_room_dimensions: ratio 1.4, width = sqrt(area / 1.4),
\* length = area / width = sqrt(1.4 * area), both rounded
calculate_room_dimensions(area) ==
    [length |-> RoundSqrtFrom(7 * area, 5, 0),
     width  |-> RoundSqrtFrom(5 * area, 7, 0)]

\* the plot boundary of draw_floor_plan: scale_factor = min(800, 600) /
\* max(canvas_width, canvas_height), offsets 50
scaled_points(pts) ==
    [i \in 1 .. Len(pts) |->
        [x |-> (pts[i].x * 600) \div 600 + 50, y |-> (pts[i].y * 600) \div 600 + 50]]

\* (mutation of draw_rooms_layout: row and column exchanged)
draw_rooms_layout_transposed(rooms, sizes) ==
    LET grid_cols == CeilSqrt(Len(rooms)) IN
    [n \in 1 .. Len(rooms) |->
        LET i == n - 1
            room_key == rooms[n]
            row == i % grid_cols
            col == i \div grid_cols
            x == 100 + col * (120 + 20)
            y == 100 + row * (100 + 20)
        IN  [key |-> room_key, x |-> x, y |-> y, x2 |-> x + 120, y2 |-> y + 100,
             color |-> RoomCatalog[room_key].color,
             name |-> RoomCatalog[room_key].name,
             area |-> sizes[room_key]]]

\* (mutation of draw_rooms_layout: the gap of 20 is subtracted from the box
\* size in the column and row step instead of added to it)
draw_rooms_layout_narrow_step(rooms, sizes) ==
    LET grid_cols == CeilSqrt(Len(rooms)) IN
    [n \in 1 .. Len(rooms) |->
        LET i == n - 1
            room_key == rooms[n]
            col == i % grid_cols
            row == i \div grid_cols
            x == 100 + col * (120 - 20)
            y == 100 + row * (100 - 20)
        IN  [key |-> room_key, x |-> x, y |-> y, x2 |-> x + 120, y2 |-> y + 100,
             color |-> RoomCatalog[room_key].color,
             name |-> RoomCatalog[room_key].name,
             area |-> sizes[room_key]]]

\* draw_rooms_layout for rooms = list(self.selected_rooms): the rectangle, the
\* label and the area text drawn for every room
draw_rooms_layout(rooms, sizes) ==
    LET grid_cols == CeilSqrt(Len(rooms)) IN
    [n \in 1 .. Len(rooms) |->
        LET i == n - 1
            room_key == rooms[n]
            col == i % grid_cols
            row == i \div grid_cols
            x == 100 + col * (120 + 20)
            y == 100 + row * (100 + 20)
        IN  [key |-> room_key, x |-> x, y |-> y, x2 |-> x + 120, y2 |-> y + 100,
             color |-> RoomCatalog[room_key].color,
             name |-> RoomCatalog[room_key].name,
             area |-> sizes[room_key]]]

\* (mutation of generate_room_schedule: the rows the tree holds are not deleted
\* first, the new rows are inserted after them)
generate_room_schedule_appends(rooms, sizes) ==
    room_schedule_tree \o
    [n \in 1 .. Len(rooms) |->
        LET area == sizes[rooms[n]]
            dimensions == calculate_room_dimensions(area)
        IN  [name |-> RoomCatalog[rooms[n]].name, area |-> area,
             length |-> dimensions.length, width |-> dimensions.width,
             height |-> "10'"]]

\* generate_room_schedule: the tree is emptied, then one row per room
generate_room_schedule(rooms, sizes) ==
    [n \in 1 .. Len(rooms) |->
        LET area == sizes[rooms[n]]
            dimensions == calculate_room_dimensions(area)
        IN  [name |-> RoomCatalog[rooms[n]].name, area |-> area,
             length |-> dimensions.length, width |-> dimensions.width,
             height |-> "10'"]]

generate_floor_plan ==
    /\ lastCall' = "generate_floor_plan"
    /\ raised' = "none"
    /\ UNCHANGED <<plotVars, roomVars, beamVars>>
    /\ IF Len(plot_points) < 3
       THEN /\ messagebox' = "Error: Please draw a plot with at least 3 points first."
            /\ UNCHANGED <<planVars, status_var>>
       ELSE IF selected_rooms = {}
       THEN /\ messagebox' = "Error: Please select at least one room."
            /\ UNCHANGED <<planVars, status_var>>
       ELSE \E rooms \in Orders(selected_rooms) :
            /\ floor_plan_canvas' =
                   [boundary |-> scaled_points(plot_points),
                    rooms |-> draw_rooms_layout(rooms, room_sizes),
                    compass |-> TRUE]
            /\ room_schedule_tree' = generate_room_schedule(rooms, room_sizes)
            /\ status_var' = Status("Floor plan generated successfully", 0)
            /\ messagebox' = "Info: Floor plan generated successfully!"

\* the rooms and slider values the floor-plan generation is driven with
LayoutRooms == FirstKeys(MaxLayoutRooms)
\* the slider moved while a plan is prepared: that of the first catalog room
LayoutSizeRooms == FirstKeys(1)
LayoutSizeValues2(k) == {2 * RoomCatalog[k].max_size}

\* the plot traced before a floor plan is generated: drawing mode switched on,
\* three clicks, drawing mode switched off
TracedPlot == <<[x |-> 0, y |-> 0], [x |-> 15, y |-> 0], [x |-> 0, y |-> 20]>>

InitTraced ==
    /\ plot_points = TracedPlot
    /\ is_drawing = FALSE
    /\ scale = 10
    /\ vertex_count_label = 3
    /\ total_area_label = calculate_area(TracedPlot, 10)
    /\ builtup_area_label = builtup_area(calculate_area(TracedPlot, 10))
    /\ status_var = Status("Drawing mode stopped", 0)
    /\ messagebox = "none"
    /\ raised = "none"
    /\ lastCall = "toggle_drawing"

InitLayout == InitTraced /\ InitRooms /\ InitPlan /\ InitBeam

NextLayout ==
    \/ \E k \in LayoutRooms : on_room_checkbox(k)
    \/ \E k \in LayoutSizeRooms : \E v \in LayoutSizeValues2(k) : update_room_size(k, v)
    \/ clear_plot
    \/ generate_floor_plan

SpecLayout == InitLayout /\ [][NextLayout]_vars

(***************************************************************************)
(* Beam calculator                                                         *)
(***************************************************************************)
\* (mutation of linspace: the interval is cut into NumSamples steps and the
\* end point is left out, as with endpoint=False)
linspace_no_endpoint(length) ==
    [i \in 1 .. NumSamples |-> Rat((i - 1) * length, NumSamples)]

\* np.linspace(0, length, NumSamples): sample i (1-based) is (i-1)*length/(NumSamples-1)
linspace(length) ==
    [i \in 1 .. NumSamples |-> Rat((i - 1) * length, NumSamples - 1)]

\* shear and moment at x, as draw_beam_diagrams evaluates them
shear_at(beam_type, length, load, x) ==
    LET L == RInt(length)
        w == RInt(load)
    IN  IF beam_type = "simply_supported"
        THEN IF RLe(x, RDivInt(L, 2))
             THEN RSub(RDivInt(RMul(w, L), 2), RMul(w, x))
             ELSE RAdd(RNeg(RDivInt(RMul(w, L), 2)), RMul(w, RSub(L, x)))
        ELSE IF beam_type = "cantilever"
        THEN RMul(RNeg(w), RSub(L, x))
        ELSE RSub(RDivInt(RMul(w, L), 2), RMul(w, x))

moment_at(beam_type, length, load, x) ==
    LET L == RInt(length)
        w == RInt(load)
    IN  IF beam_type = "simply_supported"
        THEN IF RLe(x, RDivInt(L, 2))
             THEN RMul(RDivInt(RMul(w, x), 2), RSub(L, x))
             ELSE RMul(RDivInt(RMul(w, RSub(L, x)), 2), x)
        ELSE IF beam_type = "cantilever"
        THEN RNeg(RDivInt(RMul(w, RMul(RSub(L, x), RSub(L, x))), 2))
        ELSE RMul(RDivInt(RMul(w, x), 12), RSub(RMul(L, L), RMul(x, x)))

\* the curves draw_beam_diagrams plots for one of the three beam types
beam_curves(beam_type, length, load) ==
    LET x == linspace(length) IN
    [x |-> x,
     shear  |-> [i \in 1 .. Len(x) |-> shear_at(beam_type, length, load, x[i])],
     moment |-> [i \in 1 .. Len(x) |-> moment_at(beam_type, length, load, x[i])]]

\* beam_curves for every valid input of the model, computed once
BeamCurves ==
    [t \in BeamTypes |->
        [len \in {l \in BeamLengths : l > 0} |->
            [ld \in {l \in BeamLoads : l > 0} |-> beam_curves(t, len, ld)]]]

\* the curves draw_beam_diagrams plots
draw_beam_curves(beam_type, length, load) ==
    IF length \in DOMAIN BeamCurves[beam_type]
       /\ load \in DOMAIN BeamCurves[beam_type][length]
    THEN BeamCurves[beam_type][length][load]
    ELSE beam_curves(beam_type, length, load)

\* (mutation of invalid_beam_input: "and" in place of "or")
invalid_beam_input_and(length, load) == length <= 0 /\ load <= 0

\* the test of calculate_beam that turns the input down
invalid_beam_input(length, load) == length <= 0 \/ load <= 0

\* (mutation of beam_maxima: the fixed-both moment taken as w*L^2/12)
beam_maxima_fixed12(beam_type, length, load) ==
    IF beam_type = "simply_supported"
    THEN [max_moment |-> Rat(load * length * length, 8),
          max_shear  |-> Rat(load * length, 2)]
    ELSE IF beam_type = "cantilever"
    THEN [max_moment |-> Rat(load * length * length, 2),
          max_shear  |-> RInt(load * length)]
    ELSE IF beam_type = "fixed_both"
    THEN [max_moment |-> Rat(load * length * length, 12),
          max_shear  |-> Rat(load * length, 2)]
    ELSE [max_moment |-> RInt(0), max_shear |-> RInt(0)]

\* max_moment and max_shear of calculate_beam
beam_maxima(beam_type, length, load) ==
    IF beam_type = "simply_supported"
    THEN [max_moment |-> Rat(load * length * length, 8),
          max_shear  |-> Rat(load * length, 2)]
    ELSE IF beam_type = "cantilever"
    THEN [max_moment |-> Rat(load * length * length, 2),
          max_shear  |-> RInt(load * length)]
    ELSE IF beam_type = "fixed_both"
    THEN [max_moment |-> Rat(load * length * length, 24),
          max_shear  |-> Rat(load * length, 2)]
    ELSE [max_moment |-> RInt(0), max_shear |-> RInt(0)]

BeamUnchanged ==
    UNCHANGED <<beam_result, max_moment_label, max_shear_label, sfd_ax, bmd_ax>>

calculate_beam ==
    /\ lastCall' = "calculate_beam"
    /\ raised' = "none"
    /\ UNCHANGED <<beam_type_var, beam_length_var, beam_load_var, plotVars, roomVars,
                   planVars>>
    /\ IF ~beam_length_var.ok \/ ~beam_load_var.ok
       THEN \* DoubleVar.get() raises TclError, caught by the except clause
            /\ messagebox' = "Error: Calculation error"
            /\ BeamUnchanged
            /\ UNCHANGED status_var
       ELSE LET beam_type == beam_type_var
                length == beam_length_var.v
                load == beam_load_var.v
                m == beam_maxima(beam_type, length, load)
            IN  IF invalid_beam_input(length, load)
                THEN /\ messagebox' = "Error: Please enter valid positive values."
                     /\ BeamUnchanged
                     /\ UNCHANGED status_var
                ELSE /\ beam_result' = [computed |-> TRUE, max_moment |-> m.max_moment,
                                        max_shear |-> m.max_shear]
                     /\ max_moment_label' = Label2f(Fmt2(m.max_moment))
                     /\ max_shear_label' = Label2f(Fmt2(m.max_shear))
                     /\ IF beam_type \in BeamTypes
                        THEN LET c == draw_beam_curves(beam_type, length, load) IN
                             /\ sfd_ax' = [x |-> c.x, y |-> c.shear]
                             /\ bmd_ax' = [x |-> c.x, y |-> c.moment]
                             /\ status_var' = Status("Beam analysis completed", 0)
                             /\ messagebox' = "none"
                        ELSE \* draw_beam_diagrams clears both axes, then plots the
                             \* unassigned local shear: UnboundLocalError, caught
                             /\ sfd_ax' = EmptyAxes
                             /\ bmd_ax' = EmptyAxes
                             /\ messagebox' = "Error: Calculation error"
                             /\ UNCHANGED status_var

\* the user picks a beam type, or types a length or a load
BeamEdit(name) ==
    /\ Quiet(name)
    /\ BeamUnchanged
    /\ UNCHANGED <<plotVars, roomVars, planVars, status_var>>

set_beam_type(t) ==
    /\ beam_type_var' = t
    /\ UNCHANGED <<beam_length_var, beam_load_var>>
    /\ BeamEdit("beam_type_var")

set_beam_length(v) ==
    /\ beam_length_var' = v
    /\ UNCHANGED <<beam_type_var, beam_load_var>>
    /\ BeamEdit("beam_length_var")

set_beam_load(v) ==
    /\ beam_load_var' = v
    /\ UNCHANGED <<beam_type_var, beam_length_var>>
    /\ BeamEdit("beam_load_var")

NextBeam ==
    \/ \E t \in BeamTypes \cup OtherBeamTypes : set_beam_type(t)
    \/ \E v \in {Num(l) : l \in BeamLengths} \cup {NotANumber} : set_beam_length(v)
    \/ \E v \in {Num(l) : l \in BeamLoads} \cup {NotANumber} : set_beam_load(v)
    \/ calculate_beam

SpecBeam == Init /\ [][NextBeam]_vars

NextPlot ==
    \/ toggle_drawing
    \/ \E x \in ClickXs, y \in ClickYs : on_canvas_click(x, y)
    \/ on_canvas_right_click
    \/ clear_plot
    \/ undo_last_point
    \/ \E v \in ScaleValues2 : on_scale_change(v)

SpecPlot == Init /\ [][NextPlot]_vars

\* every handler, from the state after construction
Next == NextPlot \/ NextRooms \/ NextLayout \/ NextBeam

Spec == Init /\ [][Next]_vars

(***************************************************************************)
(* Claims about the plot polygon                                           *)
(***************************************************************************)
\* C1: whenever the point sequence holds 0, 1 or 2 points, calculate_area
\* returns 0 (this is also the area the label shows) and no handler raised.
C1_AreaZeroBelowThreePoints ==
    Len(plot_points) <= 2 =>
        /\ calculate_area(plot_points, scale) = 0
        /\ total_area_label = 0
        /\ raised = "none"

\* a 2-point sequence left behind by undoing the third point of a polygon
C1_Witness ==
    /\ lastCall = "undo_last_point"
    /\ Len(plot_points) = 2
    /\ plot_points[1] # plot_points[2]
    /\ total_area_label = 0

\* the cyclic sum of x_i*y_(i+1) - x_(i+1)*y_i, written over the index set
RECURSIVE SumOver(_, _)
SumOver(S, pts) ==
    IF S = {} THEN 0
    ELSE LET i == CHOOSE k \in S : TRUE
             nx == IF i = Len(pts) THEN 1 ELSE i + 1
         IN  (pts[i].x * pts[nx].y - pts[nx].x * pts[i].y) + SumOver(S \ {i}, pts)

CyclicSum(pts) == SumOver(1 .. Len(pts), pts)

RightTriangle(pts, sc) ==
    /\ Len(pts) = 3
    /\ \/ {pts[1], pts[2], pts[3]} =
             {[x |-> 0, y |-> 0], [x |-> 3 * sc, y |-> 0], [x |-> 0, y |-> 4 * sc]}
       \/ {pts[1], pts[2], pts[3]} =
             {[x |-> 0, y |-> 0], [x |-> 4 * sc, y |-> 0], [x |-> 0, y |-> 3 * sc]}

\* C2: with 3 or more points the area shown is |cyclic sum| / 2 / scale^2
\* rounded to a nearest integer (it differs from the exact quotient by at most
\* one half), and the 3*scale by 4*scale right triangle at the origin has area 6.
C2_ShoelaceArea ==
    Len(plot_points) >= 3 =>
        /\ total_area_label = calculate_area(plot_points, scale)
        /\ Abs(2 * scale * scale * total_area_label - Abs(CyclicSum(plot_points)))
               <= scale * scale
        /\ RightTriangle(plot_points, scale) => total_area_label = 6

C2_Witness ==
    /\ RightTriangle(plot_points, scale)
    /\ total_area_label = 6
    /\ lastCall = "on_canvas_click"

Rotate(pts, k) ==
    [i \in 1 .. Len(pts) |-> pts[((i - 1 + k) % Len(pts)) + 1]]

Reverse(pts) == [i \in 1 .. Len(pts) |-> pts[Len(pts) + 1 - i]]

\* C3: the area of the point sequence equals the area of each of its cyclic
\* rotations and of its reversal.
C3_RotationReversalInvariant ==
    /\ \A k \in 0 .. Len(plot_points) - 1 :
          calculate_area(Rotate(plot_points, k), scale) = total_area_label
    /\ calculate_area(Reverse(plot_points), scale) = total_area_label

\* a polygon of non-zero area whose rotation and reversal are other sequences
C3_Witness ==
    /\ Len(plot_points) >= 3
    /\ total_area_label > 0
    /\ Rotate(plot_points, 1) # plot_points
    /\ Reverse(plot_points) # plot_points
    /\ Rotate(plot_points, 1) # Reverse(plot_points)

(***************************************************************************)
(* Claims about the room selection                                         *)
(***************************************************************************)
InRange(k, area) ==
    /\ RoomCatalog[k].min_size <= area
    /\ area <= RoomCatalog[k].max_size

\* C4: every area held in room_sizes lies within [min_size, max_size] of its
\* room definition, an area outside the range having been rejected.
C4_AreasWithinRange ==
    \A k \in DOMAIN room_sizes : InRange(k, room_sizes[k])

\* C5: a call of toggle_room_selection with a key that is not in the catalog
\* raises KeyError and leaves selected_rooms and room_sizes as they were.
C5_UnknownRoomRejected ==
    [][\A k \in UnknownKeys :
          on_room_checkbox(k) =>
              /\ raised' = "KeyError"
              /\ selected_rooms' = selected_rooms
              /\ room_sizes' = room_sizes]_vars

\* the failed call, made while rooms were selected
C5_Witness ==
    /\ lastCall = "toggle_room_selection"
    /\ raised = "KeyError"
    /\ selected_rooms # {}
    /\ \E k \in selected_rooms : room_sizes[k] # RoomCatalog[k].default_size

BeamInputsAreNumbers == beam_length_var.ok /\ beam_load_var.ok

InvalidInputDialog == "Error: Please enter valid positive values."

\* C7: a calculation with length <= 0 or load <= 0 ends with the invalid-input
\* error dialog and leaves the reported maximum moment and shear and both
\* plotted profiles as they were.
C7_NonPositiveInputRejected ==
    [][(/\ calculate_beam
        /\ BeamInputsAreNumbers
        /\ (beam_length_var.v <= 0 \/ beam_load_var.v <= 0))
       => /\ messagebox' = InvalidInputDialog
          /\ max_moment_label' = max_moment_label
          /\ max_shear_label' = max_shear_label
          /\ beam_result' = beam_result
          /\ sfd_ax' = sfd_ax
          /\ bmd_ax' = bmd_ax]_vars

\* length 0 turned down after an earlier calculation had reported a result
C7_Witness ==
    /\ lastCall = "calculate_beam"
    /\ messagebox = InvalidInputDialog
    /\ beam_length_var = Num(0)
    /\ beam_load_var.ok /\ beam_load_var.v > 0
    /\ beam_result.computed
    /\ sfd_ax # EmptyAxes

BeamSucceeded ==
    /\ lastCall = "calculate_beam"
    /\ beam_type_var \in BeamTypes
    /\ BeamInputsAreNumbers
    /\ beam_length_var.v > 0
    /\ beam_load_var.v > 0

\* fraction a equals p / q
IsQuotient(a, p, q) == a.n * q = p * a.d

\* the label shows the value to the nearest hundredth
ShownToTwoDecimals(label, a) ==
    /\ label.fmt = ".2f"
    /\ 2 * Abs(100 * a.n - label.hundredths * a.d) <= a.d

\* C8: for positive L and w calculate_beam computes, and shows to two
\* decimals, M_max = w*L^2/8 and V_max = w*L/2 (simply supported),
\* w*L^2/2 and w*L (cantilever), w*L^2/24 and w*L/2 (fixed both); for L = 12,
\* w = 10 these are (180, 60), (720, 120) and (60, 60).
C8_BeamMaxima ==
    BeamSucceeded =>
        LET L == beam_length_var.v
            w == beam_load_var.v
            t == beam_type_var
            M == beam_result.max_moment
            V == beam_result.max_shear
        IN  /\ beam_result.computed
            /\ messagebox = "none"
            /\ ShownToTwoDecimals(max_moment_label, M)
            /\ ShownToTwoDecimals(max_shear_label, V)
            /\ t = "simply_supported" =>
                   IsQuotient(M, w * L * L, 8) /\ IsQuotient(V, w * L, 2)
            /\ t = "cantilever" =>
                   IsQuotient(M, w * L * L, 2) /\ IsQuotient(V, w * L, 1)
            /\ t = "fixed_both" =>
                   IsQuotient(M, w * L * L, 24) /\ IsQuotient(V, w * L, 2)
            /\ (L = 12 /\ w = 10) =>
                   <<t, max_moment_label.hundredths, max_shear_label.hundredths>> \in
                       {<<"simply_supported", 18000, 6000>>,
                        <<"cantilever", 72000, 12000>>,
                        <<"fixed_both", 6000, 6000>>}

C8_Witness ==
    /\ BeamSucceeded
    /\ beam_type_var = "fixed_both"
    /\ beam_length_var.v = 12
    /\ beam_load_var.v = 10
    /\ max_moment_label = Label2f(6000)
    /\ max_shear_label = Label2f(6000)

\* C9: after a calculation for one of the three beam types with valid L and w
\* the shear and the moment profile have as many samples as the x grid, 100;
\* the grid is evenly spaced, starts at 0 and ends at L.
C9_ProfileSampling ==
    BeamSucceeded =>
        LET x == sfd_ax.x IN
        /\ bmd_ax.x = x
        /\ Len(x) = 100
        /\ Len(sfd_ax.y) = Len(x)
        /\ Len(bmd_ax.y) = Len(x)
        /\ x[1] = RInt(0)
        /\ x[Len(x)] = RInt(beam_length_var.v)
        /\ \A i \in 1 .. Len(x) - 2 :
              RSub(x[i + 1], x[i]) = RSub(x[i + 2], x[i + 1])

C9_Witness ==
    /\ BeamSucceeded
    /\ beam_type_var = "cantilever"
    /\ beam_length_var.v = 12
    /\ Len(sfd_ax.x) = 100
    /\ sfd_ax.x[100] = RInt(12)
    /\ sfd_ax.y[1] # sfd_ax.y[100]

(***************************************************************************)
(* Claims about the floor plan                                             *)
(***************************************************************************)
\* the rectangles R follow the grid rule for N = Len(R) rooms
OnGrid(R) ==
    LET N == Len(R) IN
    N >= 1 =>
        \E cols \in 1 .. N :
            /\ (cols - 1) * (cols - 1) < N
            /\ N <= cols * cols
            /\ \A n \in 1 .. N :
                  /\ R[n].x = 100 + ((n - 1) % cols) * (120 + 20)
                  /\ R[n].y = 100 + ((n - 1) \div cols) * (100 + 20)
                  /\ R[n].x2 - R[n].x = 120
                  /\ R[n].y2 - R[n].y = 100

DefaultSizes == [k \in DOMAIN RoomCatalog |-> RoomCatalog[k].default_size]

\* the layout of the first N catalog rooms follows the grid rule, N = 1 .. 10
CatalogPrefixesOnGrid ==
    \A N \in 1 .. Len(CatalogOrder) :
        OnGrid(draw_rooms_layout(SubSeq(CatalogOrder, 1, N), DefaultSizes))

PlanGenerated ==
    /\ lastCall = "generate_floor_plan"
    /\ messagebox = "Info: Floor plan generated successfully!"

\* C10: the room at 0-based index i of the N selected rooms is drawn at column
\* i mod cols and row i div cols, cols = ceil(sqrt(N)), at 100 + index * (box
\* size + 20) on each axis, every box 120 by 100 whatever the room's area; one
\* box per selected room.  The same holds for the first N catalog rooms, N = 1..10.
C10_GridPlacement ==
    /\ OnGrid(floor_plan_canvas.rooms)
    /\ PlanGenerated =>
          LET R == floor_plan_canvas.rooms IN
          /\ Len(R) = Cardinality(selected_rooms)
          /\ {R[n].key : n \in 1 .. Len(R)} = selected_rooms
          /\ \A n \in 1 .. Len(R) : R[n].area = room_sizes[R[n].key]
    /\ CatalogPrefixesOnGrid

\* three rooms of different areas, the third one in the second row
C10_Witness ==
    /\ PlanGenerated
    /\ Len(floor_plan_canvas.rooms) = 3
    /\ floor_plan_canvas.rooms[3].x = 100
    /\ floor_plan_canvas.rooms[3].y = 220
    /\ floor_plan_canvas.rooms[2].x = 240
    /\ floor_plan_canvas.rooms[1].area # floor_plan_canvas.rooms[2].area
    /\ floor_plan_canvas.rooms[3].area # RoomCatalog[floor_plan_canvas.rooms[3].key].default_size

(***************************************************************************)
(* Claims about the catalog, the built-up area and the error policy        *)
(***************************************************************************)
\* C11: in every reachable state room_definitions is the catalog __init__
\* built (same keys, same entries), and every entry has
\* min_size <= default_size <= max_size.
C11_CatalogStatic ==
    /\ room_definitions = RoomCatalog
    /\ DOMAIN room_definitions = {CatalogOrder[i] : i \in 1 .. Len(CatalogOrder)}
    /\ \A k \in DOMAIN room_definitions :
          /\ room_definitions[k].min_size <= room_definitions[k].default_size
          /\ room_definitions[k].default_size <= room_definitions[k].max_size

\* a room ticked at the catalog's default_size while another selected room
\* holds an area above its max_size
C11_Witness ==
    /\ lastCall = "toggle_room_selection"
    /\ raised = "none"
    /\ \E k \in selected_rooms :
          /\ room_sizes[k] = room_definitions[k].default_size
          /\ \E j \in selected_rooms : room_sizes[j] > room_definitions[j].max_size

\* the built-up area of every plot area 0 .. MaxArea is a nearest integer of
\* three quarters of it, and that of 100 is 75
BuiltupOfAreas ==
    /\ \A a \in 0 .. MaxArea : Abs(4 * builtup_area(a) - 3 * a) <= 2
    /\ builtup_area(100) = 75

\* C12: the built-up area shown is 0.75 times the plot area shown, rounded to
\* a nearest integer (it differs from the exact product by at most one half),
\* and never negative; the built-up area of 100 is 75.
C12_BuiltupArea ==
    /\ total_area_label >= 0
    /\ builtup_area_label >= 0
    /\ Abs(4 * builtup_area_label - 3 * total_area_label) <= 2
    /\ builtup_area_label = builtup_area(total_area_label)
    /\ BuiltupOfAreas

\* a polygon of area 6: three quarters of it are 4.5, shown as 4
C12_Witness ==
    /\ lastCall = "on_canvas_click"
    /\ Len(plot_points) >= 3
    /\ total_area_label = 6
    /\ builtup_area_label = 4

\* C13: for a polygon of 3 or more points the built-up area shown is a nearest
\* integer of 0.75 times the unrounded area |cyclic sum| / 2 / scale^2 (it
\* differs from that product by at most one half).
C13_BuiltupFromUnroundedArea ==
    Len(plot_points) >= 3 =>
        Abs(8 * scale * scale * builtup_area_label - 3 * Abs(CyclicSum(plot_points)))
            <= 4 * scale * scale

\* the beam inputs calculate_beam finds are invalid: an entry that is no number,
\* a length or load that is not positive, or a support type that is none of
\* the three
InvalidBeamInputs ==
    \/ ~BeamInputsAreNumbers
    \/ beam_length_var.v <= 0
    \/ beam_load_var.v <= 0
    \/ beam_type_var \notin BeamTypes

ErrorDialogs ==
    {InvalidInputDialog, "Error: Calculation error"}

\* C14: a calculation on invalid beam inputs (the support type outside the
\* three included) ends in an error outcome and reports no numeric result: the
\* maximum moment and shear, computed and shown, stay as they were.
C14_NoDefaultForInvalidInput ==
    [][(calculate_beam /\ InvalidBeamInputs)
       => /\ messagebox' \in ErrorDialogs
          /\ beam_result' = beam_result
          /\ max_moment_label' = max_moment_label
          /\ max_shear_label' = max_shear_label]_vars

\* C15: on_scale_change sets the scale to the integer part of the value it is
\* given and leaves plot_points (length, order, every coordinate) and the
\* drawing mode as they were; the labels then show the same points' area at the
\* new scale.
C15_ScaleChangeKeepsPoints ==
    [][\A v \in ScaleValues2 :
          (lastCall' = "on_scale_change" /\ on_scale_change(v)) =>
              /\ plot_points' = plot_points
              /\ is_drawing' = is_drawing
              /\ scale' = IntOfFloat2(v)
              /\ vertex_count_label' = Len(plot_points)
              /\ total_area_label' = calculate_area(plot_points, scale')]_vars

\* a polygon whose area label changed with the scale
C15_Witness ==
    /\ lastCall = "on_scale_change"
    /\ Len(plot_points) >= 3
    /\ scale = 5
    /\ total_area_label > 0
    /\ total_area_label # calculate_area(plot_points, 10)

(***************************************************************************)
(* Claims about the room schedule and the layout                           *)
(***************************************************************************)
\* C16: right after a successful generate_floor_plan the room schedule has as
\* many rows as there are selected rooms, every selected room has a row with
\* its name and its current area of room_sizes, and every row is such a row.
C16_ScheduleRegenerated ==
    PlanGenerated =>
        LET T == room_schedule_tree IN
        /\ Len(T) = Cardinality(selected_rooms)
        /\ \A k \in selected_rooms :
              \E n \in 1 .. Len(T) :
                 /\ T[n].name = room_definitions[k].name
                 /\ T[n].area = room_sizes[k]
        /\ \A n \in 1 .. Len(T) :
              \E k \in selected_rooms :
                 /\ T[n].name = room_definitions[k].name
                 /\ T[n].area = room_sizes[k]
                 /\ T[n].length = calculate_room_dimensions(room_sizes[k]).length
                 /\ T[n].width = calculate_room_dimensions(room_sizes[k]).width

\* a schedule of one row for the one selected room, carrying the area set
\* through the room's slider
C16_Witness ==
    /\ PlanGenerated
    /\ Len(room_schedule_tree) = 1
    /\ Cardinality(selected_rooms) = 1
    /\ \E k \in selected_rooms :
          /\ room_sizes[k] # room_definitions[k].default_size
          /\ room_schedule_tree[1].area = room_sizes[k]

\* C17: the plan generated for a selection is the same whichever order the
\* iteration over selected_rooms yields its elements in (the order depends on
\* how the set was built): every order gives the rectangles drawn and the
\* schedule rows, in their order, that the generation produced.
C17_LayoutDeterministic ==
    PlanGenerated =>
        \A rooms \in Orders(selected_rooms) :
            /\ draw_rooms_layout(rooms, room_sizes) = floor_plan_canvas.rooms
            /\ generate_room_schedule(rooms, room_sizes) = room_schedule_tree

RAbs(a) == [n |-> Abs(a.n), d |-> a.d]

\* C19: after a calculation for one of the three beam types with positive L
\* and w, every sample of the plotted moment profile has absolute value at most
\* the maximum moment reported and every sample of the plotted shear profile
\* has absolute value at most the maximum shear reported.
C19_MaximaBoundProfiles ==
    BeamSucceeded =>
        /\ \A i \in 1 .. Len(bmd_ax.y) : RLe(RAbs(bmd_ax.y[i]), beam_result.max_moment)
        /\ \A i \in 1 .. Len(sfd_ax.y) : RLe(RAbs(sfd_ax.y[i]), beam_result.max_shear)

(***************************************************************************)
(* Claims about the placed rectangles                                      *)
(***************************************************************************)
\* the rectangles of R are pairwise apart: one lies wholly to the left of, or
\* wholly above, the other
NoOverlap(R) ==
    \A m, n \in 1 .. Len(R) :
        m # n => \/ R[m].x2 <= R[n].x
                 \/ R[n].x2 <= R[m].x
                 \/ R[m].y2 <= R[n].y
                 \/ R[n].y2 <= R[m].y

\* the grid cell of a rectangle is its top-left corner; the rows and columns
\* in use are the distinct y and x values
DistinctCells(R) ==
    \A m, n \in 1 .. Len(R) : m # n => <<R[m].x, R[m].y>> # <<R[n].x, R[n].y>>

RowsUsed(R) == {R[n].y : n \in 1 .. Len(R)}
ColsUsed(R) == {R[n].x : n \in 1 .. Len(R)}

WellPlaced(R) ==
    /\ DistinctCells(R)
    /\ NoOverlap(R)
    /\ Cardinality(RowsUsed(R)) <= Cardinality(ColsUsed(R))
    /\ Len(R) >= 1 => Cardinality(ColsUsed(R)) <= CeilSqrt(Len(R))

\* the layout of the first N catalog rooms is well placed, N = 1 .. 10
CatalogPrefixesWellPlaced ==
    \A N \in 1 .. Len(CatalogOrder) :
        WellPlaced(draw_rooms_layout(SubSeq(CatalogOrder, 1, N), DefaultSizes))

\* C20: in the layout drawn for the selected rooms, and in the layout of the
\* first N catalog rooms for N = 1 .. 10, different rooms have different grid
\* cells, no two rectangles overlap, and the rows in use are no more than the
\* columns in use.
C20_CellsDistinctNoOverlap ==
    /\ WellPlaced(floor_plan_canvas.rooms)
    /\ PlanGenerated =>
          /\ Len(floor_plan_canvas.rooms) = Cardinality(selected_rooms)
          /\ \A m, n \in 1 .. Len(floor_plan_canvas.rooms) :
                m # n => floor_plan_canvas.rooms[m].key # floor_plan_canvas.rooms[n].key
    /\ CatalogPrefixesWellPlaced

\* three rooms in two rows and two columns: the second right of the first, the
\* third below it
C20_Witness ==
    /\ PlanGenerated
    /\ Len(floor_plan_canvas.rooms) = 3
    /\ Cardinality(RowsUsed(floor_plan_canvas.rooms)) = 2
    /\ Cardinality(ColsUsed(floor_plan_canvas.rooms)) = 2
    /\ floor_plan_canvas.rooms[1].x2 < floor_plan_canvas.rooms[2].x
    /\ floor_plan_canvas.rooms[1].y2 < floor_plan_canvas.rooms[3].y

(***************************************************************************)
(* Claims about the point sequence                                         *)
(***************************************************************************)
\* the sequence q with its last element removed
Front(q) == SubSeq(q, 1, Len(q) - 1)

\* C21: every step leaves plot_points as it was, appends one point at its end,
\* removes its last point, or empties it.  A left or right click while drawing
\* mode is off leaves it unchanged; a left click while drawing mode is on
\* appends the clicked point, so that removing the last point gives the
\* previous sequence back; undo_last_point (and a right click while drawing)
\* removes exactly the last point, and on the empty sequence leaves it empty
\* and raises nothing.
C21_PointSequenceEdits ==
    [][/\ \/ plot_points' = plot_points
          \/ Len(plot_points') = Len(plot_points) + 1 /\ Front(plot_points') = plot_points
          \/ plot_points # << >> /\ plot_points' = Front(plot_points)
          \/ plot_points' = << >>
       /\ (lastCall' \in {"on_canvas_click", "on_canvas_right_click"} /\ ~is_drawing)
              => plot_points' = plot_points /\ raised' = "none"
       /\ (lastCall' = "on_canvas_click" /\ is_drawing)
              => /\ Len(plot_points') = Len(plot_points) + 1
                 /\ plot_points'[Len(plot_points')].x \in ClickXs
                 /\ plot_points'[Len(plot_points')].y \in ClickYs
                 /\ Front(plot_points') = plot_points
       /\ (lastCall' = "undo_last_point" \/ (lastCall' = "on_canvas_right_click" /\ is_drawing))
              => /\ raised' = "none"
                 /\ messagebox' = "none"
                 /\ plot_points' = IF plot_points = << >> THEN << >> ELSE Front(plot_points)
                 /\ plot_points # << >> =>
                        Append(plot_points', plot_points[Len(plot_points)]) = plot_points
      ]_vars

\* a left click made while drawing mode is off and two points are traced
C21_Witness ==
    /\ lastCall = "on_canvas_click"
    /\ ~is_drawing
    /\ Len(plot_points) = 2
    /\ vertex_count_label = 2
    /\ status_var = Status("Drawing mode stopped", 0)

====
